---- MODULE Spec2Model ----
(***************************************************************************)
(* State-machine model of IBKR/Authentication.py: the module-level start-  *)
(* up (configuration check, key load), the assertion builder, the two      *)
(* token requests, the four session operations and the __main__ flow.      *)
(* The gateway is the environment: each operation that sends a request     *)
(* receives a response drawn from Responses.                                *)
(***************************************************************************)
EXTENDS Integers, Sequences, FiniteSets, TLC

\* ------------------------------------------------------------------ bounds
\* how many times an importing caller invokes the module's functions
MaxCalls == 1
\* how many seconds the clock advances during a run
MaxTicks == 1

\* ------------------------------------------------------- Python values
\* None is the empty tuple, a str s is the one-element tuple <<s>>.
None == <<>>
Str(s) == <<s>>
IsStr(v) == v /= None

\* No exception: the call returned normally.
NoExc == ""

\* ------------------------------------------------------- configuration
\* An environment variable is unset (<<>>) or set to a string (<<s>>).
Environs ==
  [ ip                 : {<<>>, <<"1.2.3.4">>},
    clientId           : {<<>>, <<"C1">>},
    clientKeyId        : {<<>>, <<"">>},
    credential         : {<<>>, <<"CRED">>},
    path_to_PrivateKey : {<<>>, <<"key.pem">>},
    scope              : {<<>>} ]

\* What the file at path_to_PrivateKey holds.
KeyFiles == {"missing", "garbage", "public", "private"}

\* __name__: run as a script, or imported by a caller.
Names == {"__main__", "IBKR.Authentication"}

StartTimes == {1762416000}

\* ------------------------------------------------------- HTTP responses
Statuses == {200, 201, 401}
TokenStrings == {"AT1", "BT1"}
JsonKeys == {"access_token", "session"}
JsonVals == {None, Str("sess789")} \cup {Str(s) : s \in TokenStrings}
\* dicts with any subset of the keys; access_token is null or a token,
\* session is a session identifier
JsonObjects ==
  {o \in UNION {[S -> JsonVals] : S \in SUBSET JsonKeys} :
     /\ "access_token" \in DOMAIN o => o["access_token"] /= Str("sess789")
     /\ "session" \in DOMAIN o => o["session"] = Str("sess789")}

\* A response body: empty text, text that is not JSON, a JSON array, or a
\* JSON object (a dict from keys to values).
Bodies ==
  {[kind |-> k, obj |-> <<>>] : k \in {"empty", "text", "array"}}
    \cup {[kind |-> "object", obj |-> o] : o \in JsonObjects}

\* The transport failed (requests raises ConnectionError), or a response
\* came back.
ConnectionError == [ok |-> FALSE, status |-> 0, body |-> [kind |-> "empty", obj |-> <<>>]]
Responses ==
  {ConnectionError}
    \cup {[ok |-> TRUE, status |-> s, body |-> b] : s \in Statuses, b \in Bodies}

VARIABLES
  environ,        \* os.environ at start-up
  keyFile,        \* content of the private-key file
  name,           \* __name__
  now,            \* time.time(), whole seconds
  ticks,          \* seconds elapsed since the start
  pc,             \* position of the process
  jwtPrivateKey,  \* the loaded key: "unset", "private" or "public"
  fileOpen,       \* the handle opened at line 50 is open
  http,           \* outbound HTTP requests, in order
  printed,        \* the last text written to stdout
  access_token,   \* __main__'s access_token
  bearer_token,   \* __main__'s bearer_token
  last,           \* the last call: operation, argument, response, outcome
  calls           \* calls made by an importing caller

vars == <<environ, keyFile, name, now, ticks, pc, jwtPrivateKey, fileOpen,
          http, printed, access_token, bearer_token, last, calls>>

\* os.getenv(key, default)
getenv(key, default) == IF environ[key] = <<>> THEN default ELSE environ[key][1]

ip == getenv("ip", "")
clientId == getenv("clientId", "")
clientKeyId == getenv("clientKeyId", "main")
credential == getenv("credential", "")
path_to_PrivateKey == getenv("path_to_PrivateKey", "")
scope == getenv("scope", "sso-sessions.write")

\* line 35: the start-up check
ConfigMissing ==
  clientId = "" \/ clientKeyId = "" \/ credential = "" \/ path_to_PrivateKey = ""

oauth2Url == "https://api.ibkr.com/oauth2"
gatewayUrl == "https://api.ibkr.com/gw"
clientPortalUrl == "https://api.ibkr.com"
audience == "/token"

tokenUrl == oauth2Url \o "/api/v1/token"
sessionUrl == gatewayUrl \o "/api/v1/sso-sessions"
initUrl == clientPortalUrl \o "/v1/api/iserver/auth/ssodh/init"
validateUrl == clientPortalUrl \o "/v1/api/sso/validate"
tickleUrl == clientPortalUrl \o "/v1/api/tickle"
logoutUrl == clientPortalUrl \o "/v1/api/logout"

NoResponse == [ok |-> FALSE, status |-> -1, body |-> [kind |-> "empty", obj |-> <<>>]]
NoCall == [op |-> "", arg |-> None, resp |-> NoResponse, exc |-> NoExc, ret |-> None]

\* ------------------------------------------------------- base64
\* how long the byte strings given to base64_encode are
MaxBytes == 3

\* Byte values that meet every base64 case: 251 and 255 give the sextets
\* 62 ('+') and 63 ('/'); 34 and 123 are '"' and '{'.
ByteVals == {0, 34, 123, 251, 255}

\* json.dumps(header, separators=(',', ':')).encode() for kid = "main":
\* {"alg":"RS256","typ":"JWT","kid":"main"}
HeaderJson ==
  <<123, 34, 97, 108, 103, 34, 58, 34, 82, 83, 50, 53, 54, 34, 44, 34, 116,
    121, 112, 34, 58, 34, 74, 87, 84, 34, 44, 34, 107, 105, 100, 34, 58, 34,
    109, 97, 105, 110, 34, 125>>

\* json.dumps(claims, separators=(',', ':')).encode() for the token claims of
\* clientId "C1" at now = 1762416000:
\* {"iss":"C1","sub":"C1","aud":"/token","exp":1762416020,"iat":1762415990}
ClaimsJson ==
  <<123, 34, 105, 115, 115, 34, 58, 34, 67, 49, 34, 44, 34, 115, 117, 98,
    34, 58, 34, 67, 49, 34, 44, 34, 97, 117, 100, 34, 58, 34, 47, 116, 111,
    107, 101, 110, 34, 44, 34, 101, 120, 112, 34, 58, 49, 55, 54, 50, 52,
    49, 54, 48, 50, 48, 44, 34, 105, 97, 116, 34, 58, 49, 55, 54, 50, 52,
    49, 53, 57, 57, 48, 125>>

ByteStrings ==
  UNION {[1..n -> ByteVals] : n \in 0..MaxBytes} \cup {HeaderJson, ClaimsJson}

\* The alphabet of base64.b64encode (RFC 4648, section 4).
B64Alphabet ==
  <<
    "A", "B", "C", "D", "E", "F", "G", "H", "I", "J", "K", "L", "M",
    "N", "O", "P", "Q", "R", "S", "T", "U", "V", "W", "X", "Y", "Z",
    "a", "b", "c", "d", "e", "f", "g", "h", "i", "j", "k", "l", "m",
    "n", "o", "p", "q", "r", "s", "t", "u", "v", "w", "x", "y", "z",
    "0", "1", "2", "3", "4", "5", "6", "7", "8", "9", "+", "/" >>

\* base64.b64encode: three bytes give four characters; a last group of one
\* byte gives two characters and "==", of two bytes three characters and "=".
RECURSIVE b64encode(_)
b64encode(val) ==
  IF val = <<>> THEN <<>>
  ELSE IF Len(val) = 1
  THEN LET n == val[1] * 16
       IN <<B64Alphabet[(n \div 64) + 1], B64Alphabet[(n % 64) + 1], "=", "=">>
  ELSE IF Len(val) = 2
  THEN LET n == (val[1] * 256 + val[2]) * 4
       IN <<B64Alphabet[(n \div 4096) + 1], B64Alphabet[((n \div 64) % 64) + 1],
            B64Alphabet[(n % 64) + 1], "=">>
  ELSE LET n == val[1] * 65536 + val[2] * 256 + val[3]
       IN <<B64Alphabet[(n \div 262144) + 1],
            B64Alphabet[((n \div 4096) % 64) + 1],
            B64Alphabet[((n \div 64) % 64) + 1],
            B64Alphabet[(n % 64) + 1]>>
            \o b64encode(SubSeq(val, 4, Len(val)))

\* str.replace(old, new) for one-character old and new
replace(str, old, new) ==
  [i \in 1..Len(str) |-> IF str[i] = old THEN new ELSE str[i]]

\* str.rstrip(chars) for a one-character chars
RECURSIVE rstrip(_, _)
rstrip(str, chars) ==
  IF str /= <<>> /\ str[Len(str)] = chars
  THEN rstrip(SubSeq(str, 1, Len(str) - 1), chars)
  ELSE str

\* base64_encode that leaves the padding on.
base64_encode_keepPad(val) ==
  replace(replace(b64encode(val), "+", "-"), "/", "_")

\* Line 94.
base64_encode(val) ==
  rstrip(replace(replace(b64encode(val), "+", "-"), "/", "_"), "=")

\* ------------------------------------------------------- helpers
\* The outcome of a call: the exception raised (NoExc when it returned), the
\* value returned, the requests handed to the HTTP library, the text printed.
Return(ret, sent, out) == [exc |-> NoExc, ret |-> ret, sent |-> sent, out |-> out]
Raise(exc, sent, out) == [exc |-> exc, ret |-> None, sent |-> sent, out |-> out]

\* resp.json(): the parsed body, or JSONDecodeError when the text is empty or
\* is not JSON.
json(resp) ==
  IF resp.body.kind \in {"object", "array"}
  THEN [exc |-> NoExc, ret |-> resp.body]
  ELSE [exc |-> "JSONDecodeError", ret |-> resp.body]

\* resp.json()[key]: KeyError when the dict has no such key, TypeError when
\* the parsed body is a list.
Subscript(resp, key) ==
  LET j == json(resp)
  IN IF j.exc /= NoExc THEN [exc |-> j.exc, ret |-> None]
     ELSE IF j.ret.kind = "array" THEN [exc |-> "TypeError", ret |-> None]
     ELSE IF key \in DOMAIN j.ret.obj THEN [exc |-> NoExc, ret |-> j.ret.obj[key]]
     ELSE [exc |-> "KeyError", ret |-> None]

\* Lines 61-87: the request line, the status and the body of the response.
\* The decode error of a non-JSON body is caught at line 70 (requests'
\* JSONDecodeError is a json.JSONDecodeError), so the function never raises.
formatted_HTTPrequest(req, resp) ==
  [method |-> req.method, url |-> req.url, status |-> resp.status,
   body |-> resp.body]

\* Lines 96-109: header and claims, signed with jwtPrivateKey. Signing
\* raises TypeError when the loaded key has no private part.
make_jws(header, claims) ==
  IF jwtPrivateKey = "private"
  THEN [exc |-> NoExc,
        ret |-> [header |-> header, claims |-> claims, signature |-> "RS256"]]
  ELSE [exc |-> "TypeError", ret |-> <<>>]

\* compute_client_assertion with claims initialised to {} before the
\* branches: an unknown url gets an assertion with no claims.
compute_client_assertion_emptyClaims(url) ==
  LET header == [alg |-> "RS256", typ |-> "JWT", kid |-> clientKeyId]
  IN IF url = oauth2Url \o "/api/v1/token"
     THEN make_jws(header,
                   [iss |-> clientId, sub |-> clientId, aud |-> audience,
                    exp |-> now + 20, iat |-> now - 10])
     ELSE IF url = gatewayUrl \o "/api/v1/sso-sessions"
     THEN make_jws(header,
                   [ip |-> ip, credential |-> credential, iss |-> clientId,
                    exp |-> now + 86400, iat |-> now])
     ELSE make_jws(header, <<>>)

\* compute_client_assertion with the token window widened: exp = now + 30.
compute_client_assertion_exp30(url) ==
  LET header == [alg |-> "RS256", typ |-> "JWT", kid |-> clientKeyId]
  IN IF url = oauth2Url \o "/api/v1/token"
     THEN make_jws(header,
                   [iss |-> clientId, sub |-> clientId, aud |-> audience,
                    exp |-> now + 30, iat |-> now - 10])
     ELSE IF url = gatewayUrl \o "/api/v1/sso-sessions"
     THEN make_jws(header,
                   [ip |-> ip, credential |-> credential, iss |-> clientId,
                    exp |-> now + 86400, iat |-> now])
     ELSE [exc |-> "UnboundLocalError", ret |-> <<>>]

\* compute_client_assertion with the token branch's back-dating applied to
\* the session branch too: iat = now - 10.
compute_client_assertion_backdated(url) ==
  LET header == [alg |-> "RS256", typ |-> "JWT", kid |-> clientKeyId]
  IN IF url = oauth2Url \o "/api/v1/token"
     THEN make_jws(header,
                   [iss |-> clientId, sub |-> clientId, aud |-> audience,
                    exp |-> now + 20, iat |-> now - 10])
     ELSE IF url = gatewayUrl \o "/api/v1/sso-sessions"
     THEN make_jws(header,
                   [ip |-> ip, credential |-> credential, iss |-> clientId,
                    exp |-> now + 86400, iat |-> now - 10])
     ELSE [exc |-> "UnboundLocalError", ret |-> <<>>]

\* Lines 111-139.
compute_client_assertion(url) ==
  LET header == [alg |-> "RS256", typ |-> "JWT", kid |-> clientKeyId]
  IN IF url = oauth2Url \o "/api/v1/token"
     THEN make_jws(header,
                   [iss |-> clientId, sub |-> clientId, aud |-> audience,
                    exp |-> now + 20, iat |-> now - 10])
     ELSE IF url = gatewayUrl \o "/api/v1/sso-sessions"
     THEN make_jws(header,
                   [ip |-> ip, credential |-> credential, iss |-> clientId,
                    exp |-> now + 86400, iat |-> now])
     \* claims is unbound at line 138
     ELSE [exc |-> "UnboundLocalError", ret |-> <<>>]

\* "Bearer " + token
Bearer(tok) == "Bearer " \o tok[1]

Request(method, url, headers, data) ==
  [method |-> method, url |-> url, headers |-> headers, data |-> data]

\* getAccessToken posting before the assertion is looked at: a signing
\* failure surfaces only after the request has gone out.
getAccessToken_sendFirst(resp) ==
  LET ca == compute_client_assertion(tokenUrl)
      req == Request("POST", tokenUrl,
                     "Content-Type" :> "application/x-www-form-urlencoded",
                     [client_assertion_type |->
                        "urn:ietf:params:oauth:client-assertion-type:jwt-bearer",
                      client_assertion |-> ca.ret,
                      grant_type |-> "client_credentials",
                      scope |-> scope])
      out == <<formatted_HTTPrequest(req, resp)>>
      tok == Subscript(resp, "access_token")
  IN IF ca.exc /= NoExc THEN Raise(ca.exc, <<req>>, <<>>)
     ELSE IF ~resp.ok THEN Raise("ConnectionError", <<req>>, <<>>)
     ELSE IF tok.exc /= NoExc THEN Raise(tok.exc, <<req>>, out)
     ELSE Return(tok.ret, <<req>>, out)

\* Lines 145-162.
getAccessToken(resp) ==
  LET ca == compute_client_assertion(tokenUrl)
      req == Request("POST", tokenUrl,
                     "Content-Type" :> "application/x-www-form-urlencoded",
                     [client_assertion_type |->
                        "urn:ietf:params:oauth:client-assertion-type:jwt-bearer",
                      client_assertion |-> ca.ret,
                      grant_type |-> "client_credentials",
                      scope |-> scope])
      out == <<formatted_HTTPrequest(req, resp)>>
      tok == Subscript(resp, "access_token")
  IN IF ca.exc /= NoExc THEN Raise(ca.exc, <<>>, <<>>)
     ELSE IF ~resp.ok THEN Raise("ConnectionError", <<req>>, <<>>)
     ELSE IF tok.exc /= NoExc THEN Raise(tok.exc, <<req>>, out)
     ELSE Return(tok.ret, <<req>>, out)

\* getBearerToken with the builder call copied from getAccessToken: the
\* assertion is built for the token endpoint's url.
getBearerToken_tokenAssertion(tok, resp) ==
  LET ca == compute_client_assertion(tokenUrl)
      req == Request("POST", sessionUrl,
                     ("Authorization" :> Bearer(tok))
                       @@ ("Content-Type" :> "application/jwt"),
                     ca.ret)
      out == <<formatted_HTTPrequest(req, resp)>>
      btok == Subscript(resp, "access_token")
  IN IF ~IsStr(tok) THEN Raise("TypeError", <<>>, <<>>)
     ELSE IF ca.exc /= NoExc THEN Raise(ca.exc, <<>>, <<>>)
     ELSE IF ~resp.ok THEN Raise("ConnectionError", <<req>>, <<>>)
     ELSE IF resp.status = 200
     THEN IF btok.exc /= NoExc THEN Raise(btok.exc, <<req>>, out)
          ELSE Return(btok.ret, <<req>>, out)
     ELSE Return(None, <<req>>, out)

\* getBearerToken without the status test of line 180: the body is
\* subscripted whatever the status, as getAccessToken does.
getBearerToken_noStatusTest(tok, resp) ==
  LET ca == compute_client_assertion(sessionUrl)
      req == Request("POST", sessionUrl,
                     ("Authorization" :> Bearer(tok))
                       @@ ("Content-Type" :> "application/jwt"),
                     ca.ret)
      out == <<formatted_HTTPrequest(req, resp)>>
      btok == Subscript(resp, "access_token")
  IN IF ~IsStr(tok) THEN Raise("TypeError", <<>>, <<>>)
     ELSE IF ca.exc /= NoExc THEN Raise(ca.exc, <<>>, <<>>)
     ELSE IF ~resp.ok THEN Raise("ConnectionError", <<req>>, <<>>)
     ELSE IF btok.exc /= NoExc THEN Raise(btok.exc, <<req>>, out)
     ELSE Return(btok.ret, <<req>>, out)

\* getBearerToken with the credentials swapped: the Authorization header
\* carries no access token.
getBearerToken_noToken(tok, resp) ==
  LET ca == compute_client_assertion(sessionUrl)
      req == Request("POST", sessionUrl,
                     ("Authorization" :> "Bearer ")
                       @@ ("Content-Type" :> "application/jwt"),
                     ca.ret)
      out == <<formatted_HTTPrequest(req, resp)>>
      btok == Subscript(resp, "access_token")
  IN IF ~IsStr(tok) THEN Raise("TypeError", <<>>, <<>>)
     ELSE IF ca.exc /= NoExc THEN Raise(ca.exc, <<>>, <<>>)
     ELSE IF ~resp.ok THEN Raise("ConnectionError", <<req>>, <<>>)
     ELSE IF resp.status = 200
     THEN IF btok.exc /= NoExc THEN Raise(btok.exc, <<req>>, out)
          ELSE Return(btok.ret, <<req>>, out)
     ELSE Return(None, <<req>>, out)

\* getBearerToken building the header with an f-string, f"Bearer {tok}",
\* which formats None instead of raising TypeError.
getBearerToken_fstring(tok, resp) ==
  LET ca == compute_client_assertion(sessionUrl)
      req == Request("POST", sessionUrl,
                     ("Authorization" :>
                        IF IsStr(tok) THEN Bearer(tok) ELSE "Bearer None")
                       @@ ("Content-Type" :> "application/jwt"),
                     ca.ret)
      out == <<formatted_HTTPrequest(req, resp)>>
      btok == Subscript(resp, "access_token")
  IN IF ca.exc /= NoExc THEN Raise(ca.exc, <<>>, <<>>)
     ELSE IF ~resp.ok THEN Raise("ConnectionError", <<req>>, <<>>)
     ELSE IF resp.status = 200
     THEN IF btok.exc /= NoExc THEN Raise(btok.exc, <<req>>, out)
          ELSE Return(btok.ret, <<req>>, out)
     ELSE Return(None, <<req>>, out)

\* Lines 168-182.
getBearerToken(tok, resp) ==
  LET ca == compute_client_assertion(sessionUrl)
      req == Request("POST", sessionUrl,
                     ("Authorization" :> Bearer(tok))
                       @@ ("Content-Type" :> "application/jwt"),
                     ca.ret)
      out == <<formatted_HTTPrequest(req, resp)>>
      btok == Subscript(resp, "access_token")
  IN IF ~IsStr(tok) THEN Raise("TypeError", <<>>, <<>>)
     ELSE IF ca.exc /= NoExc THEN Raise(ca.exc, <<>>, <<>>)
     ELSE IF ~resp.ok THEN Raise("ConnectionError", <<req>>, <<>>)
     ELSE IF resp.status = 200
     THEN IF btok.exc /= NoExc THEN Raise(btok.exc, <<req>>, out)
          ELSE Return(btok.ret, <<req>>, out)
     ELSE Return(None, <<req>>, out)

\* The headers of every session operation (lines 189-190 and alike).
SessionHeaders(tok) ==
  ("Authorization" :> Bearer(tok)) @@ ("User-Agent" :> "python/3.11")

\* Lines 188-195.
ssodh_init(tok, resp) ==
  LET req == Request("POST", initUrl, SessionHeaders(tok),
                     [publish |-> TRUE, compete |-> TRUE])
  IN IF ~IsStr(tok) THEN Raise("TypeError", <<>>, <<>>)
     ELSE IF ~resp.ok THEN Raise("ConnectionError", <<req>>, <<>>)
     ELSE Return(None, <<req>>, <<formatted_HTTPrequest(req, resp)>>)

\* validate_sso building the header with an f-string, f"Bearer {tok}",
\* which formats None instead of raising TypeError.
validate_sso_fstring(tok, resp) ==
  LET req == Request("GET", validateUrl,
                     ("Authorization" :>
                        IF IsStr(tok) THEN Bearer(tok) ELSE "Bearer None")
                       @@ ("User-Agent" :> "python/3.11"),
                     <<>>)
  IN IF ~resp.ok THEN Raise("ConnectionError", <<req>>, <<>>)
     ELSE Return(None, <<req>>, <<formatted_HTTPrequest(req, resp)>>)

\* validate_sso ending in "return vsso_request.json()"-like code: the body
\* is handed back to the caller.
validate_sso_returnsBody(tok, resp) ==
  LET req == Request("GET", validateUrl, SessionHeaders(tok), <<>>)
  IN IF ~IsStr(tok) THEN Raise("TypeError", <<>>, <<>>)
     ELSE IF ~resp.ok THEN Raise("ConnectionError", <<req>>, <<>>)
     ELSE Return(<<resp.body>>, <<req>>, <<formatted_HTTPrequest(req, resp)>>)

\* Lines 197-203.
validate_sso(tok, resp) ==
  LET req == Request("GET", validateUrl, SessionHeaders(tok), <<>>)
  IN IF ~IsStr(tok) THEN Raise("TypeError", <<>>, <<>>)
     ELSE IF ~resp.ok THEN Raise("ConnectionError", <<req>>, <<>>)
     ELSE Return(None, <<req>>, <<formatted_HTTPrequest(req, resp)>>)

\* tickle reading the field with .get('session'): a missing field gives
\* None instead of KeyError.
tickle_get(tok, resp) ==
  LET req == Request("GET", tickleUrl, SessionHeaders(tok), <<>>)
      out == <<formatted_HTTPrequest(req, resp)>>
      sess == Subscript(resp, "session")
  IN IF ~IsStr(tok) THEN Raise("TypeError", <<>>, <<>>)
     ELSE IF ~resp.ok THEN Raise("ConnectionError", <<req>>, <<>>)
     ELSE IF sess.exc = "KeyError" THEN Return(None, <<req>>, out)
     ELSE IF sess.exc /= NoExc THEN Raise(sess.exc, <<req>>, out)
     ELSE Return(sess.ret, <<req>>, out)

\* Lines 205-212.
tickle(tok, resp) ==
  LET req == Request("GET", tickleUrl, SessionHeaders(tok), <<>>)
      out == <<formatted_HTTPrequest(req, resp)>>
      sess == Subscript(resp, "session")
  IN IF ~IsStr(tok) THEN Raise("TypeError", <<>>, <<>>)
     ELSE IF ~resp.ok THEN Raise("ConnectionError", <<req>>, <<>>)
     ELSE IF sess.exc /= NoExc THEN Raise(sess.exc, <<req>>, out)
     ELSE Return(sess.ret, <<req>>, out)

\* logoutSession retrying once after a transport failure before giving up.
logoutSession_retry(tok, resp) ==
  LET req == Request("POST", logoutUrl, SessionHeaders(tok), <<>>)
  IN IF ~IsStr(tok) THEN Raise("TypeError", <<>>, <<>>)
     ELSE IF ~resp.ok THEN Raise("ConnectionError", <<req, req>>, <<>>)
     ELSE Return(None, <<req>>, <<formatted_HTTPrequest(req, resp)>>)

\* Lines 214-220.
logoutSession(tok, resp) ==
  LET req == Request("POST", logoutUrl, SessionHeaders(tok), <<>>)
  IN IF ~IsStr(tok) THEN Raise("TypeError", <<>>, <<>>)
     ELSE IF ~resp.ok THEN Raise("ConnectionError", <<req>>, <<>>)
     ELSE Return(None, <<req>>, <<formatted_HTTPrequest(req, resp)>>)

\* The effect of a call on the request log, stdout and the call record.
\* No response is consumed when no request was sent.
Record(op, arg, resp, r) ==
  /\ http' = http \o r.sent
  /\ printed' = IF r.out = <<>> THEN printed ELSE r.out
  /\ last' = [op |-> op, arg |-> arg,
              resp |-> IF r.sent = <<>> THEN NoResponse ELSE resp,
              exc |-> r.exc, ret |-> r.ret]

Init ==
  /\ environ \in Environs
  /\ keyFile \in KeyFiles
  /\ name \in Names
  /\ now \in StartTimes
  /\ ticks = 0
  /\ pc = "import"
  /\ jwtPrivateKey = "unset"
  /\ fileOpen = FALSE
  /\ http = <<>>
  /\ printed = <<>>
  /\ access_token = None
  /\ bearer_token = None
  /\ last = NoCall
  /\ calls = 0

\* The clock advances.
Tick ==
  /\ ticks < MaxTicks
  /\ ticks' = ticks + 1
  /\ now' = now + 1
  /\ UNCHANGED <<environ, keyFile, name, pc, jwtPrivateKey, fileOpen, http,
                 printed, access_token, bearer_token, last, calls>>

\* Lines 28-53: read the configuration, check it, load the key.
ModuleLoad ==
  /\ pc = "import"
  /\ LET exc == IF ConfigMissing THEN "RuntimeError"
                ELSE IF keyFile = "missing" THEN "FileNotFoundError"
                ELSE IF keyFile = "garbage" THEN "ValueError"
                ELSE NoExc
     IN /\ last' = [op |-> "<module>", arg |-> None, resp |-> NoResponse,
                    exc |-> exc, ret |-> None]
        /\ pc' = IF exc /= NoExc THEN "crashed"
                 ELSE IF name = "__main__" THEN "main_227" ELSE "imported"
        /\ jwtPrivateKey' = IF exc = NoExc THEN keyFile ELSE "unset"
        \* file.close() at line 53 is not reached when import_key raises
        /\ fileOpen' = (exc = "ValueError")
  /\ UNCHANGED <<environ, keyFile, name, now, ticks, http, printed,
                 access_token, bearer_token, calls>>

\* A response is drawn only for a call that sends a request (for one that
\* sends none, a single stand-in is enumerated).
Sends(r, resp) == r.sent = <<>> => resp = ConnectionError

\* ------------------------------------------------------- __main__
\* Line 227. An uncaught exception ends the process.
MainGetAccessToken ==
  /\ pc = "main_227"
  /\ \E resp \in Responses :
       LET r == getAccessToken(resp)
       IN /\ Sends(r, resp)
          /\ Record("getAccessToken", None, resp, r)
          /\ pc' = IF r.exc = NoExc THEN "main_228" ELSE "crashed"
          /\ access_token' = IF r.exc = NoExc THEN r.ret ELSE access_token
  /\ UNCHANGED <<environ, keyFile, name, now, ticks, jwtPrivateKey, fileOpen,
                 bearer_token, calls>>

\* Line 228.
MainGetBearerToken ==
  /\ pc = "main_228"
  /\ \E resp \in Responses :
       LET r == getBearerToken(access_token, resp)
       IN /\ Sends(r, resp)
          /\ Record("getBearerToken", access_token, resp, r)
          /\ pc' = IF r.exc = NoExc THEN "main_229" ELSE "crashed"
          /\ bearer_token' = IF r.exc = NoExc THEN r.ret ELSE bearer_token
  /\ UNCHANGED <<environ, keyFile, name, now, ticks, jwtPrivateKey, fileOpen,
                 access_token, calls>>

\* Line 229, the last statement of the script.
MainValidateSso ==
  /\ pc = "main_229"
  /\ \E resp \in Responses :
       LET r == validate_sso(bearer_token, resp)
       IN /\ Sends(r, resp)
          /\ Record("validate_sso", bearer_token, resp, r)
          /\ pc' = IF r.exc = NoExc THEN "exit" ELSE "crashed"
  /\ UNCHANGED <<environ, keyFile, name, now, ticks, jwtPrivateKey, fileOpen,
                 access_token, bearer_token, calls>>

\* ------------------------------------------------------- imported
\* A caller that imported the module invokes its functions, in any order
\* and with any argument.
Args == {None} \cup {Str(s) : s \in TokenStrings}

Called(op, arg, resp, r) ==
  /\ calls < MaxCalls
  /\ Sends(r, resp)
  /\ calls' = calls + 1
  /\ Record(op, arg, resp, r)
  /\ UNCHANGED <<environ, keyFile, name, now, ticks, pc, jwtPrivateKey,
                 fileOpen, access_token, bearer_token>>

CallGetAccessToken ==
  /\ pc = "imported"
  /\ \E resp \in Responses :
       Called("getAccessToken", None, resp, getAccessToken(resp))

CallGetBearerToken ==
  /\ pc = "imported"
  /\ \E arg \in Args, resp \in Responses :
       Called("getBearerToken", arg, resp, getBearerToken(arg, resp))

CallSsodhInit ==
  /\ pc = "imported"
  /\ \E arg \in Args, resp \in Responses :
       Called("ssodh_init", arg, resp, ssodh_init(arg, resp))

CallValidateSso ==
  /\ pc = "imported"
  /\ \E arg \in Args, resp \in Responses :
       Called("validate_sso", arg, resp, validate_sso(arg, resp))

CallTickle ==
  /\ pc = "imported"
  /\ \E arg \in Args, resp \in Responses :
       Called("tickle", arg, resp, tickle(arg, resp))

CallLogoutSession ==
  /\ pc = "imported"
  /\ \E arg \in Args, resp \in Responses :
       Called("logoutSession", arg, resp, logoutSession(arg, resp))

\* The urls a caller may hand to compute_client_assertion: the six
\* endpoints and a near miss of the token endpoint.
Urls ==
  {tokenUrl, sessionUrl, initUrl, validateUrl, tickleUrl, logoutUrl,
   tokenUrl \o "/"}

CallComputeClientAssertion ==
  /\ pc = "imported"
  /\ \E url \in Urls :
       LET ca == compute_client_assertion(url)
       IN Called("compute_client_assertion", Str(url), ConnectionError,
                 IF ca.exc = NoExc THEN Return(<<ca.ret>>, <<>>, <<>>)
                 ELSE Raise(ca.exc, <<>>, <<>>))

Next ==
  \/ Tick
  \/ ModuleLoad
  \/ MainGetAccessToken
  \/ MainGetBearerToken
  \/ MainValidateSso
  \/ CallGetAccessToken
  \/ CallGetBearerToken
  \/ CallSsodhInit
  \/ CallValidateSso
  \/ CallTickle
  \/ CallLogoutSession
  \/ CallComputeClientAssertion

Spec == Init /\ [][Next]_vars

\* ------------------------------------------------------- base64_encode
\* base64_encode called on its own by an importer of a loaded module: the
\* call is pending in the initial state and returns in one step.
TestIdentity ==
  [ip |-> <<"1.2.3.4">>, clientId |-> <<"C1">>, clientKeyId |-> <<>>,
   credential |-> <<"CRED">>, path_to_PrivateKey |-> <<"key.pem">>,
   scope |-> <<>>]

Loaded ==
  /\ environ = TestIdentity
  /\ keyFile = "private"
  /\ name = "IBKR.Authentication"
  /\ now \in StartTimes
  /\ ticks = 0
  /\ jwtPrivateKey = "private"
  /\ fileOpen = FALSE
  /\ http = <<>>
  /\ printed = <<>>
  /\ access_token = None
  /\ bearer_token = None
  /\ calls = 0

InitB64 ==
  /\ Loaded
  /\ pc = "call"
  /\ \E val \in ByteStrings :
       last = [op |-> "base64_encode", arg |-> val, resp |-> NoResponse,
               exc |-> NoExc, ret |-> None]

Base64Encode ==
  /\ pc = "call"
  /\ last.op = "base64_encode"
  /\ pc' = "return"
  /\ last' = [last EXCEPT !.ret = base64_encode(last.arg)]
  /\ UNCHANGED <<environ, keyFile, name, now, ticks, jwtPrivateKey, fileOpen,
                 http, printed, access_token, bearer_token, calls>>

NextB64 == Base64Encode

SpecB64 == InitB64 /\ [][NextB64]_vars

\* ------------------------------------------------------- bridge.py
\* Values parsed from the broker's JSON, tagged with their Python type.
JDict(f) == [t |-> "dict", items |-> f]
JList(x) == [t |-> "list", s |-> x]
JStr(x) == [t |-> "str", s |-> x]
JNum(x) == [t |-> "int", s |-> x]
JNull == [t |-> "NoneType", s |-> "null"]
Float(x) == [t |-> "float", s |-> x]
EmptyDict == JDict(<<>>)

BROKER_URL == "http://localhost:8080/api/agent/internal/broker"

Symbols == {"SPY", "AAPL"}

\* What the broker may put under "price" and under "positions"; numbers and
\* lists are written as their text.
BrokerPrices == {JNum("150"), JStr("150"), JStr("n/a"), JNull}
BrokerPositions == {JList("[]"), JList("[{\"symbol\": \"SPY\"}]"), JStr("none"), JNull}
BrokerDicts ==
  {EmptyDict}
    \cup {JDict("price" :> p) : p \in BrokerPrices}
    \cup {JDict("positions" :> q) : q \in BrokerPositions}
    \cup {JDict(("price" :> p) @@ ("positions" :> q)) :
            p \in BrokerPrices, q \in BrokerPositions}
BrokerJson ==
  BrokerDicts
    \cup {JList("[]"), JList("[{\"symbol\": \"SPY\"}]"), JNum("150"), JStr("ok"), JNull}

\* The outcomes of urlopen + read + decode + json.loads: URLError (no
\* connection), HTTPError (an error status), a timeout while reading, a body
\* that is not UTF-8, a body that is not JSON, or the parsed JSON value.
GetOutcomes ==
  {[kind |-> k, value |-> JNull] :
     k \in {"URLError", "HTTPError 404", "HTTPError 500", "TimeoutError",
            "UnicodeDecodeError", "JSONDecodeError"}}
    \cup {[kind |-> "json", value |-> j] : j \in BrokerJson}

\* Lines 19-33: every exception is caught and gives {}; a body that parses
\* is returned as parsed, whatever its type.
http_get(url, outcome) ==
  IF outcome.kind = "json" THEN outcome.value ELSE EmptyDict

\* float(x): a number converts, a str converts when it spells a number
\* (ValueError otherwise), anything else is a TypeError.
float(x) ==
  IF x.t = "float" THEN [exc |-> NoExc, ret |-> x]
  ELSE IF x.t = "int" THEN [exc |-> NoExc, ret |-> Float(x.s \o ".0")]
  ELSE IF x.t = "str"
  THEN IF x.s = "150" THEN [exc |-> NoExc, ret |-> Float("150.0")]
       ELSE [exc |-> "ValueError", ret |-> JNull]
  ELSE [exc |-> "TypeError", ret |-> JNull]

\* dict.get(key, default); AttributeError on a value that is no dict.
get(data, key, default) ==
  IF data.t /= "dict" THEN [exc |-> "AttributeError", ret |-> JNull]
  ELSE IF key \in DOMAIN data.items
  THEN [exc |-> NoExc, ret |-> data.items[key]]
  ELSE [exc |-> NoExc, ret |-> default]

BrokerRequest(url) == Request("GET", url, "Accept" :> "application/json", <<>>)

\* Lines 39-46.
get_price(symbol, outcome) ==
  LET url == BROKER_URL \o "/market-data/" \o symbol
      data == http_get(url, outcome)
      price == get(data, "price", Float("0.0"))
      f == float(price.ret)
  IN IF price.exc /= NoExc \/ f.exc /= NoExc
     THEN Return(Float("0.0"), <<BrokerRequest(url)>>, <<>>)
     ELSE Return(f.ret, <<BrokerRequest(url)>>, <<>>)

\* Lines 48-54.
get_account(outcome) ==
  LET url == BROKER_URL \o "/account"
  IN Return(http_get(url, outcome), <<BrokerRequest(url)>>, <<>>)

\* Lines 56-63.
get_positions(outcome) ==
  LET url == BROKER_URL \o "/positions"
      data == http_get(url, outcome)
      positions == get(data, "positions", JList("[]"))
  IN IF data.t = "list" THEN Return(data, <<BrokerRequest(url)>>, <<>>)
     ELSE IF positions.exc /= NoExc
     THEN Return(JList("[]"), <<BrokerRequest(url)>>, <<>>)
     ELSE Return(positions.ret, <<BrokerRequest(url)>>, <<>>)

\* Lines 65-71.
get_option_chain(symbol, outcome) ==
  LET url == BROKER_URL \o "/options/" \o symbol
  IN Return(http_get(url, outcome), <<BrokerRequest(url)>>, <<>>)

\* The agent code run by execute_code calls the broker object: the start
\* state is the bridge with its global broker, no call made.
InitBridge ==
  /\ environ = TestIdentity
  /\ keyFile = "private"
  /\ name = "bridge"
  /\ now \in StartTimes
  /\ ticks = 0
  /\ pc = "exec"
  /\ jwtPrivateKey = "unset"
  /\ fileOpen = FALSE
  /\ http = <<>>
  /\ printed = <<>>
  /\ access_token = None
  /\ bearer_token = None
  /\ last = NoCall
  /\ calls = 0

BrokerCalled(op, arg, outcome, r) ==
  /\ calls < MaxCalls
  /\ calls' = calls + 1
  /\ http' = http \o r.sent
  /\ last' = [op |-> op, arg |-> arg, resp |-> outcome, exc |-> r.exc,
              ret |-> r.ret]
  /\ UNCHANGED <<environ, keyFile, name, now, ticks, pc, jwtPrivateKey,
                 fileOpen, printed, access_token, bearer_token>>

CallHttpGet ==
  /\ pc = "exec"
  /\ \E outcome \in GetOutcomes :
       LET url == BROKER_URL \o "/account"
       IN BrokerCalled("_http_get", Str(url), outcome,
                       Return(http_get(url, outcome), <<BrokerRequest(url)>>, <<>>))

CallGetPrice ==
  /\ pc = "exec"
  /\ \E symbol \in Symbols, outcome \in GetOutcomes :
       BrokerCalled("get_price", Str(symbol), outcome, get_price(symbol, outcome))

CallGetAccount ==
  /\ pc = "exec"
  /\ \E outcome \in GetOutcomes :
       BrokerCalled("get_account", None, outcome, get_account(outcome))

CallGetPositions ==
  /\ pc = "exec"
  /\ \E outcome \in GetOutcomes :
       BrokerCalled("get_positions", None, outcome, get_positions(outcome))

CallGetOptionChain ==
  /\ pc = "exec"
  /\ \E symbol \in Symbols, outcome \in GetOutcomes :
       BrokerCalled("get_option_chain", Str(symbol), outcome,
                    get_option_chain(symbol, outcome))

NextBridge ==
  \/ CallHttpGet
  \/ CallGetPrice
  \/ CallGetAccount
  \/ CallGetPositions
  \/ CallGetOptionChain

SpecBridge == InitBridge /\ [][NextBridge]_vars

\* ======================================================= properties
\* The response is a JSON object that has the key.
HasField(resp, key) ==
  resp.ok /\ resp.body.kind = "object" /\ key \in DOMAIN resp.body.obj
Field(resp, key) == resp.body.obj[key]

SessionOps == {"ssodh_init", "validate_sso", "tickle", "logoutSession"}

\* This step is an invocation of op (by __main__ or by an importing caller).
Invokes(op) == last'.op = op /\ (pc' /= pc \/ calls' /= calls)

\* C1: getAccessToken returns a token only when the token endpoint answered
\* 200 with an access_token field, and then exactly that field's value; on
\* any other answer (another status, or no such field) it raises and
\* returns nothing.
C1_AccessTokenOnlyOn200 ==
  (last.op = "getAccessToken" /\ last.resp.ok) =>
    IF last.resp.status = 200 /\ HasField(last.resp, "access_token")
    THEN last.exc = NoExc /\ last.ret = Field(last.resp, "access_token")
    ELSE last.exc /= NoExc /\ last.ret = None

\* C2: getBearerToken never raises on a non-200 answer, whatever the body:
\* it returns None; on 200 it returns the access_token field of the body.
C2_BearerSoftFail ==
  (last.op = "getBearerToken" /\ last.resp.ok) =>
    /\ last.resp.status /= 200 => last.exc = NoExc /\ last.ret = None
    /\ (last.resp.status = 200 /\ HasField(last.resp, "access_token")) =>
         last.exc = NoExc /\ last.ret = Field(last.resp, "access_token")

\* A non-200 answer that carries an access_token was turned into None.
C2_Witness ==
  /\ last.op = "getBearerToken"
  /\ last.resp.ok /\ last.resp.status = 401
  /\ HasField(last.resp, "access_token")
  /\ last.exc = NoExc /\ last.ret = None

\* C3: in the __main__ flow, when the token endpoint and then the session
\* endpoint both answer 200 with an access_token, getBearerToken returns the
\* session endpoint's token, and the run has sent exactly two requests: a
\* POST to the token endpoint, then a POST to the session endpoint whose
\* Authorization header is "Bearer " + the token of the first answer.
C3_Handshake ==
  [][ ( /\ pc = "main_228"
        /\ last'.op = "getBearerToken"
        /\ last.resp.status = 200 /\ HasField(last.resp, "access_token")
        /\ last'.resp.status = 200 /\ HasField(last'.resp, "access_token") )
      =>
      ( /\ pc' = "main_229"
        /\ bearer_token' = Field(last'.resp, "access_token")
        /\ Len(http') = 2
        /\ http'[1].method = "POST" /\ http'[1].url = tokenUrl
        /\ http'[1] = http[1]
        /\ http'[2].method = "POST" /\ http'[2].url = sessionUrl
        /\ http'[2].headers["Authorization"]
             = "Bearer " \o Field(last.resp, "access_token")[1] )
    ]_vars

\* The handshake of the end-to-end scenario: AT1, then BT1.
C3_Witness ==
  /\ pc = "main_229"
  /\ access_token = Str("AT1") /\ bearer_token = Str("BT1")
  /\ last.op = "getBearerToken" /\ last.resp.status = 200
  /\ Len(http) = 2

\* C4: in the __main__ flow no session operation is invoked unless
\* getBearerToken returned a present bearer token.
C4_NoSessionOpWithoutBearer ==
  (name = "__main__" /\ last.op \in SessionOps) =>
    IsStr(bearer_token) /\ IsStr(last.arg)

\* C5: in the __main__ flow every request that is not the token request
\* comes after a token request whose answer carried the access token;
\* once getAccessToken has raised, no other request is ever sent.
C5_SessionAfterAccessToken ==
  name = "__main__" =>
    /\ \A i \in 1..Len(http) :
         http[i].url /= tokenUrl =>
           /\ i > 1 /\ http[1].url = tokenUrl
           /\ pc \notin {"import", "main_227"}
           /\ IsStr(access_token)
    /\ pc = "main_228" =>
         /\ HasField(last.resp, "access_token")
         /\ access_token = Field(last.resp, "access_token")
    /\ (last.op = "getAccessToken" /\ last.exc /= NoExc) =>
         /\ pc = "crashed"
         /\ \A i \in 1..Len(http) : http[i].url = tokenUrl

\* The session request went out after the token request.
C5_Witness ==
  /\ name = "__main__"
  /\ Len(http) >= 2
  /\ http[1].url = tokenUrl /\ http[2].url = sessionUrl

\* A required configuration value is absent: unset, or set to "".
RequiredAbsent ==
  ip = "" \/ clientId = "" \/ credential = "" \/ path_to_PrivateKey = ""

\* C6: when a required configuration value (source IP, client identifier,
\* credential, key path) is absent, start-up fails (the process ends in the
\* module's start-up code, lines 28-53) and no HTTP request is attempted.
C6_ConfigFailFast ==
  (RequiredAbsent /\ pc /= "import") =>
    /\ pc = "crashed" /\ last.op = "<module>"
    /\ http = <<>>

\* C7: the assertion getAccessToken sends to the token endpoint has exactly
\* the claims iss = sub = clientId, aud = "/token", iat = now - 10 and
\* exp = now + 20, so exp - iat = 30.
C7_TokenClaims ==
  [][ (Invokes("getAccessToken") /\ http' /= http) =>
      LET c == http'[Len(http')].data.client_assertion.claims
      IN /\ c = [iss |-> clientId, sub |-> clientId, aud |-> "/token",
                 exp |-> now + 20, iat |-> now - 10]
         /\ c.exp - c.iat = 30
    ]_vars

\* A token assertion is in the request log.
C7_Witness ==
  /\ last.op = "getAccessToken"
  /\ Len(http) >= 1
  /\ http[Len(http)].url = tokenUrl
  /\ http[Len(http)].data.client_assertion.claims.aud = "/token"

\* C8: the assertion getBearerToken sends to the session endpoint has
\* exactly the claims ip, credential, iss = clientId, iat = now and
\* exp = now + 86400, so exp - iat = 86400, and neither aud nor sub.
C8_SessionClaims ==
  [][ (Invokes("getBearerToken") /\ http' /= http) =>
      LET c == http'[Len(http')].data.claims
      IN /\ c = [ip |-> ip, credential |-> credential, iss |-> clientId,
                 exp |-> now + 86400, iat |-> now]
         /\ c.exp - c.iat = 86400
         /\ "aud" \notin DOMAIN c /\ "sub" \notin DOMAIN c
    ]_vars

\* A session assertion carrying the source IP is in the request log.
C8_Witness ==
  /\ last.op = "getBearerToken"
  /\ Len(http) >= 1
  /\ http[Len(http)].url = sessionUrl
  /\ http[Len(http)].data.claims.ip = "1.2.3.4"

\* C9 as stated: validate_sso returns the body of the validation endpoint's
\* response, untransformed.
C9_ValidateReturnsBody ==
  (last.op = "validate_sso" /\ last.resp.ok) =>
    last.exc = NoExc /\ last.ret = <<last.resp.body>>

\* C9 amended: validate_sso returns None whatever the response; the body
\* is only printed.
C9_ValidateReturnsNone ==
  (last.op = "validate_sso" /\ last.resp.ok) =>
    /\ last.exc = NoExc /\ last.ret = None
    /\ printed[1].url = validateUrl
    /\ printed[1].body = last.resp.body

\* validate_sso got a 200 answer with a JSON object.
C9_Witness ==
  /\ last.op = "validate_sso"
  /\ last.resp.ok /\ last.resp.status = 200
  /\ last.resp.body.kind = "object" /\ last.resp.body.obj /= <<>>
  /\ last.exc = NoExc

\* C10: a tickle call that gets an answer has sent one GET to the tickle
\* endpoint; it returns exactly the session field of the body, and raises
\* when the body has no session field.
C10_TickleSession ==
  [][ (Invokes("tickle") /\ last'.resp.ok) =>
      /\ Len(http') = Len(http) + 1
      /\ http'[Len(http')].method = "GET"
      /\ http'[Len(http')].url = tickleUrl
      /\ IF HasField(last'.resp, "session")
         THEN last'.exc = NoExc /\ last'.ret = Field(last'.resp, "session")
         ELSE last'.exc /= NoExc /\ last'.ret = None
    ]_vars

\* tickle returned the session identifier.
C10_Witness ==
  /\ last.op = "tickle"
  /\ last.exc = NoExc /\ last.ret = Str("sess789")
  /\ http /= <<>> /\ http[Len(http)].url = tickleUrl

\* C11: a session operation that gets a non-2xx answer does not complete
\* normally: it raises.
C11_Non2xxSurfaced ==
  (last.op \in SessionOps /\ last.resp.ok /\ last.resp.status \notin 200..299) =>
    last.exc /= NoExc

HttpOps == {"getAccessToken", "getBearerToken"} \cup SessionOps

\* C12: no invocation of the six operations sends more than one request,
\* and a transport failure of that request reaches the caller as the
\* exception, with the one request in the log and nothing resent.
C12_NoRetry ==
  [][ \A op \in HttpOps :
        Invokes(op) =>
          /\ Len(http') <= Len(http) + 1
          /\ SubSeq(http', 1, Len(http)) = http
          /\ last'.resp = ConnectionError =>
               /\ last'.exc = "ConnectionError"
               /\ Len(http') = Len(http) + 1
    ]_vars

\* The transport failed under ssodh_init and the caller got the exception.
C12_Witness ==
  /\ last.op = "ssodh_init"
  /\ last.resp = ConnectionError /\ last.exc = "ConnectionError"
  /\ Len(http) = 1 /\ http[1].url = initUrl

\* The key file could not be opened or parsed at lines 50-52.
KeyLoadFailed ==
  last.op = "<module>" /\ last.exc \in {"FileNotFoundError", "ValueError"}

\* Signing raised inside getAccessToken or getBearerToken.
SigningFailed ==
  /\ last.op \in {"getAccessToken", "getBearerToken"}
  /\ jwtPrivateKey /= "private" /\ last.exc = "TypeError"

AssertionUrls == {tokenUrl, sessionUrl}

\* C13: after a key-load failure no request is ever in the log; in the
\* __main__ flow a signing failure leaves the log empty and ends the run;
\* for any caller, a key that cannot sign never lets a request to the token
\* or session endpoint out.
C13_FailBeforeNetwork ==
  /\ KeyLoadFailed => (pc = "crashed" /\ http = <<>>)
  /\ (name = "__main__" /\ SigningFailed) => (pc = "crashed" /\ http = <<>>)
  /\ jwtPrivateKey /= "private" =>
       \A i \in 1..Len(http) : http[i].url \notin AssertionUrls

\* The script ended on a signing failure in getAccessToken.
C13_Witness ==
  /\ name = "__main__" /\ jwtPrivateKey = "public"
  /\ last.op = "getAccessToken" /\ last.exc = "TypeError"
  /\ pc = "crashed" /\ http = <<>>

\* C14: once the load step at lines 50-53 is over, the key file is closed,
\* whether the content parsed or import_key raised.
C14_FileClosedAfterLoad ==
  pc /= "import" => ~fileOpen

SessionOpUrls == {initUrl, validateUrl, tickleUrl, logoutUrl}

\* C17: a session operation invoked with None raises TypeError and sends
\* nothing; every request to a session-operation endpoint carries
\* "Bearer " + a token.
C17_NoSessionRequestWithoutToken ==
  [][ /\ \A op \in SessionOps :
           (Invokes(op) /\ last'.arg = None) =>
             (last'.exc = "TypeError" /\ http' = http)
      /\ \A i \in 1..Len(http') :
           http'[i].url \in SessionOpUrls =>
             http'[i].headers["Authorization"]
               \in {"Bearer " \o t : t \in TokenStrings}
    ]_vars

\* __main__ handed None to validate_sso, which raised before sending.
C17_Witness ==
  /\ name = "__main__"
  /\ last.op = "validate_sso" /\ last.arg = None
  /\ last.exc = "TypeError"
  /\ Len(http) = 2

TokenClaimKeys == {"iss", "sub", "aud", "exp", "iat"}
SessionClaimKeys == {"ip", "credential", "iss", "exp", "iat"}

\* The assertion a token or session request carries.
AssertionOf(req) ==
  IF req.url = tokenUrl THEN req.data.client_assertion ELSE req.data

\* C18: compute_client_assertion raises and returns nothing for every url
\* other than the token and the session endpoint; an assertion it returns,
\* and every assertion sent, has exactly the claim set of its endpoint.
C18_OnlyKnownUrls ==
  /\ last.op = "compute_client_assertion" =>
       IF last.arg[1] \in AssertionUrls
       THEN last.exc = NoExc =>
              DOMAIN last.ret[1].claims =
                IF last.arg[1] = tokenUrl THEN TokenClaimKeys
                ELSE SessionClaimKeys
       ELSE last.exc /= NoExc /\ last.ret = None
  /\ \A i \in 1..Len(http) :
       http[i].url \in AssertionUrls =>
         DOMAIN AssertionOf(http[i]).claims =
           IF http[i].url = tokenUrl THEN TokenClaimKeys ELSE SessionClaimKeys

\* compute_client_assertion was given the ssodh/init url and raised.
C18_Witness ==
  /\ last.op = "compute_client_assertion"
  /\ last.arg = Str(initUrl)
  /\ last.exc = "UnboundLocalError" /\ last.ret = None

Pow2(e) == IF e = 0 THEN 1 ELSE IF e = 1 THEN 2 ELSE IF e = 2 THEN 4
           ELSE IF e = 3 THEN 8 ELSE IF e = 4 THEN 16 ELSE IF e = 5 THEN 32
           ELSE IF e = 6 THEN 64 ELSE 128
BitAt(val, j) ==
  IF j >= 8 * Len(val) THEN 0
  ELSE (val[(j \div 8) + 1] \div Pow2(7 - (j % 8))) % 2
SextetAt(val, k) ==
  32 * BitAt(val, 6 * k) + 16 * BitAt(val, 6 * k + 1) + 8 * BitAt(val, 6 * k + 2)
    + 4 * BitAt(val, 6 * k + 3) + 2 * BitAt(val, 6 * k + 4) + BitAt(val, 6 * k + 5)
UrlLetter(n) ==
  IF n = 62 THEN "-" ELSE IF n = 63 THEN "_" ELSE B64Alphabet[n + 1]
Base64UrlNoPad(val) ==
  [k \in 1..((8 * Len(val) + 5) \div 6) |-> UrlLetter(SextetAt(val, k - 1))]

\* C16: what base64_encode returns has no '+', '/' or '=', and is the
\* base64 encoding in the URL-safe alphabet without padding; this covers the
\* header and claims JSON that make_jws encodes.
C16_Base64Url ==
  (last.op = "base64_encode" /\ pc = "return") =>
    /\ \A i \in 1..Len(last.ret) : last.ret[i] \notin {"+", "/", "="}
    /\ last.ret = Base64UrlNoPad(last.arg)

\* b64encode gives "+/8=" for the bytes FB FF; base64_encode gave "-_8".
C16_Witness ==
  /\ pc = "return" /\ last.op = "base64_encode"
  /\ last.arg = <<251, 255>>
  /\ b64encode(last.arg) = <<"+", "/", "8", "=">>
  /\ last.ret = <<"-", "_", "8">>

\* The GET gave no usable answer: an error, or JSON that is not the dict the
\* methods expect.
GetFailed(outcome) == outcome.kind /= "json" \/ outcome.value.t /= "dict"

\* C19: no bridge call raises; when the GET fails or the JSON is not a dict,
\* _http_get returns {} and get_price returns 0.0; get_account and
\* get_option_chain always return a dict and get_positions a list.
C19_BrokerNeverRaises ==
  /\ last.op \in {"_http_get", "get_price", "get_account", "get_positions",
                  "get_option_chain"} => last.exc = NoExc
  /\ (last.op = "_http_get" /\ GetFailed(last.resp)) => last.ret = EmptyDict
  /\ (last.op = "get_price" /\ GetFailed(last.resp)) => last.ret = Float("0.0")
  /\ last.op \in {"get_account", "get_option_chain"} => last.ret.t = "dict"
  /\ last.op = "get_positions" => last.ret.t = "list"
====
